---- MODULE Spec2Model ----
(***************************************************************************)
(* A model of moite_moite::sync: split() boxes a whole value W in a        *)
(* WholeCell with one AtomicBool, asks W for two disjoint sub-references   *)
(* and hands out two Part handles.  Dropping a Part swaps the flag to true *)
(* and, if the flag was already true, fences and frees the cell.           *)
(***************************************************************************)
EXTENDS Integers, Sequences, FiniteSets, TLC

\* ------------------------------------------------------------------ bounds
\* Number of split() calls in a behaviour (cells that can be allocated).
MaxSplits == 2
\* Longest iterator a split pair holds (items of both halves together).
MaxLen == 2
\* Number of split() calls in the specifications that also follow what was
\* written (SpecAlias) or what happens-before what (SpecOrder).
MaxWatchedSplits == 1

\* ------------------------------------------------------------------ domains
Threads == {"A", "B"}
\* The thread that calls split(); the handles then go to any thread.
Main == "A"
Sides == {"left", "right"}
\* Values of the two halves of a pair (L, R), after the doc examples.
LVals == {"baguette", "hello"}
RVals == {"delicieux", "exquis"}
\* The pairs split() is called on.
Wholes == {<<"baguette", "delicieux">>, <<"hello", "delicieux">>}
\* The values a handle of a side may be assigned.
ValsOf(side) == IF side = "left" THEN LVals ELSE RVals

Cells == 1..MaxSplits
\* A handle is named by the split call that made it and by its side.
Handles == Cells \X Sides
NoHandle == <<0, "none">>
Sibling(h) == <<h[1], IF h[2] = "left" THEN "right" ELSE "left">>

\* Raw pointers: a cell's address is its index and a pointer names a cell and
\* a field of its value (Whole for the cell itself); the null pointer points
\* at no cell.
NullPtr == [cell |-> 0, field |-> 0]
None == [some |-> FALSE, ptr |-> NullPtr]
Some(p) == [some |-> TRUE, ptr |-> p]

VARIABLES
    heap,        \* cell address -> the WholeCell allocation at that address
    parts,       \* handle -> the Part value (its fields and where it lives)
    pc,          \* thread -> the step of WholeRef::drop it is in, if any
    teardowns,   \* cell address -> how often W's own drop has run
    freedBy,     \* cell address -> thread and handle whose drop freed it
    calls,       \* split call -> what the call did (who, allocations, split_mut calls)
    uaf,         \* some access targeted a cell that was not allocated
    panicked,    \* some expect("never null") failed
    rc,          \* the reference-counter protocol run beside the flag protocol
    ops,         \* handle -> the swaps, fences and deallocations of its drop
    last,        \* handle -> the value last written through it
    pair,        \* a pair on the caller's stack and its split_mut borrow
    mm           \* release/acquire memory model: what happens-before what

\* What the observers of the later sections record; the program's own state
\* is the first eight variables.
aux == <<rc, ops, last, pair, mm>>
vars == <<heap, parts, pc, teardowns, freedBy, calls, uaf, panicked,
          rc, ops, last, pair, mm>>

\* ------------------------------------------------------------------ the code
\* sync.rs:55  should_drop_value: AtomicBool::new(false)
InitFlagTrue == TRUE
InitFlag == FALSE

\* lib.rs:42-48  SplitMut for (L, R): references to the first and to the
\* second field of the pair, as offsets into the whole.
split_mut_swapped(w) == <<2, 1>>
split_mut_overlapping(w) == <<1, 1>>
split_mut(w) == <<1, 2>>

\* sync.rs:61  `left as *mut _`: the raw pointer to a field of the cell at c.
AsMutPtrNull(c, f) == NullPtr
AsMutPtr(c, f) == [cell |-> c, field |-> f]

\* sync.rs:63  Box::into_raw(holder): the address of the allocation.
Box_into_raw(c) == [cell |-> c, field |-> 0]

\* sync.rs:63,66,70  NonNull::new: None for a null pointer.
NonNull_new(p) == IF p = NullPtr THEN None ELSE Some(p)

\* sync.rs:118  the value swap() stores.
SwapValueFalse == FALSE
SwapValue == TRUE

\* sync.rs:114-119  the `if` of WholeRef::drop: free when the swap read true.
ShouldDropValueAlways(prev) == TRUE
ShouldDropValueNot(prev) == ~prev
ShouldDropValue(prev) == prev

FreshCell == [state |-> "unalloc", should_drop_value |-> FALSE,
              value |-> <<"none", "none">>]
FreedCell == [state |-> "freed", should_drop_value |-> FALSE,
              value |-> <<"none", "none">>]
NoPart == [state |-> "none", owner |-> "nobody", whole |-> NullPtr,
           ptr |-> NullPtr, prev |-> "none"]
Idle == [op |-> "idle", h |-> NoHandle]
NoCall == [by |-> "nobody", allocs |-> 0, split_muts |-> 0]
Nobody == [thread |-> "nobody", h |-> NoHandle]

\* The observers before anything has run.
RcInit == [count |-> [c \in Cells |-> 0], freed |-> [c \in Cells |-> FALSE],
           pc |-> [t \in Threads |-> "idle"]]
OpsInit == [h \in Handles |-> [swaps |-> 0, fences |-> 0, deallocs |-> 0]]
LastInit == [h \in Handles |-> "none"]
PairInit == [state |-> "none", value |-> <<"none", "none">>,
             refs |-> <<0, 0>>, written |-> <<"none", "none">>]
MmInit == [view |-> [t \in Threads |-> {}],
           released |-> [c \in Cells |-> {}],
           read |-> [t \in Threads |-> {}],
           gained |-> [t \in Threads |-> {}]]
AuxInit ==
    /\ rc = RcInit
    /\ ops = OpsInit
    /\ last = LastInit
    /\ pair = PairInit
    /\ mm = MmInit

Init ==
    /\ heap = [c \in Cells |-> FreshCell]
    /\ parts = [h \in Handles |-> NoPart]
    /\ pc = [t \in Threads |-> Idle]
    /\ teardowns = [c \in Cells |-> 0]
    /\ freedBy = [c \in Cells |-> Nobody]
    /\ calls = [c \in Cells |-> NoCall]
    /\ uaf = FALSE
    /\ panicked = FALSE
    /\ AuxInit

\* Box::new: the allocator hands out an address never used before.
Allocated == {c \in Cells : heap[c].state # "unalloc"}
Box_new == Cardinality(Allocated) + 1

\* sync.rs:48-73  split(value), called by thread t.
Split(t, value) ==
    /\ pc[t] = Idle
    /\ ~panicked
    /\ Box_new \in Cells
    /\ LET c == Box_new
           cell == [state |-> "alloc", should_drop_value |-> InitFlag,
                    value |-> value]
           refs == split_mut(value)
           left == AsMutPtr(c, refs[1])
           right == AsMutPtr(c, refs[2])
           holder == NonNull_new(Box_into_raw(c))
           lptr == NonNull_new(left)
           rptr == NonNull_new(right)
           ok == holder.some /\ lptr.some /\ rptr.some
       IN  /\ heap' = [heap EXCEPT ![c] = cell]
           /\ calls' = [calls EXCEPT ![c] =
                          [by |-> t, allocs |-> 1, split_muts |-> 1]]
           /\ panicked' = ~ok
           /\ parts' = IF ok
                THEN [parts EXCEPT
                        ![<<c, "left">>] = [state |-> "live", owner |-> "nobody",
                            whole |-> holder.ptr, ptr |-> lptr.ptr, prev |-> "none"],
                        ![<<c, "right">>] = [state |-> "live", owner |-> "nobody",
                            whole |-> holder.ptr, ptr |-> rptr.ptr, prev |-> "none"]]
                ELSE parts
    /\ UNCHANGED <<pc, teardowns, freedBy, uaf>>

\* Whether the cell a pointer targets is allocated.
IsAlloc(c) == c \in Cells /\ heap[c].state = "alloc"

\* sync.rs:149-151  Deref::deref: what the handle reads through its ptr.
deref(h) == heap[parts[h].ptr.cell].value[parts[h].ptr.field]

\* sync.rs:149-151  a read through handle h by its owner.
Deref(t, h) ==
    /\ parts[h].state = "live"
    /\ pc[t] = Idle
    /\ ~panicked
    /\ uaf' = (uaf \/ ~IsAlloc(parts[h].ptr.cell))
    /\ UNCHANGED <<heap, parts, pc, teardowns, freedBy, calls, panicked>>

\* sync.rs:160-162  DerefMut::deref_mut then an assignment `*h = v`.
DerefMutMarkingFlag(t, h, v) ==
    /\ parts[h].state = "live"
    /\ pc[t] = Idle
    /\ ~panicked
    /\ LET p == parts[h].ptr
       IN  heap' = [heap EXCEPT ![p.cell].value[p.field] = v,
                                ![p.cell].should_drop_value = TRUE]
    /\ UNCHANGED <<parts, pc, teardowns, freedBy, calls, uaf, panicked>>
DerefMut(t, h, v) ==
    /\ parts[h].state = "live"
    /\ pc[t] = Idle
    /\ ~panicked
    /\ LET p == parts[h].ptr
       IN  IF IsAlloc(p.cell)
           THEN /\ heap' = [heap EXCEPT ![p.cell].value[p.field] = v]
                /\ uaf' = uaf
           ELSE /\ heap' = heap
                /\ uaf' = TRUE
    /\ UNCHANGED <<parts, pc, teardowns, freedBy, calls, panicked>>

Bool2Str(b) == IF b THEN "true" ELSE "false"

\* sync.rs:112-119  WholeRef::drop, the atomic swap on should_drop_value and
\* the branch on what it read.  A swap on a cell that is no longer allocated
\* is a use after free: it may read either value.
DropSwap(t, h) ==
    /\ parts[h].state = "live"
    /\ pc[t] = Idle
    /\ ~panicked
    /\ LET c == parts[h].whole.cell
       IN \E prev \in BOOLEAN :
           /\ IF IsAlloc(c)
              THEN /\ prev = heap[c].should_drop_value
                   /\ heap' = [heap EXCEPT ![c].should_drop_value = SwapValue]
                   /\ uaf' = uaf
              ELSE /\ heap' = heap
                   /\ uaf' = TRUE
           /\ IF ShouldDropValue(prev)
              THEN /\ parts' = [parts EXCEPT ![h].state = "dropping",
                                             ![h].owner = t,
                                             ![h].prev = Bool2Str(prev)]
                   /\ pc' = [pc EXCEPT ![t] = [op |-> "fence", h |-> h]]
              ELSE /\ parts' = [parts EXCEPT ![h].state = "dropped",
                                             ![h].owner = t,
                                             ![h].prev = Bool2Str(prev)]
                   /\ pc' = pc
    /\ UNCHANGED <<teardowns, freedBy, calls, panicked>>

\* sync.rs:120  atomic::fence(Ordering::Acquire)
DropFence(t) ==
    /\ pc[t].op = "fence"
    /\ pc' = [pc EXCEPT ![t].op = "dealloc"]
    /\ UNCHANGED <<heap, parts, teardowns, freedBy, calls, uaf, panicked>>

\* sync.rs:121  drop(Box::from_raw(self.0.as_ptr())): W's drop runs and the
\* allocation is returned.  Freeing a cell that is not allocated is a double
\* free.
DropDealloc(t) ==
    /\ pc[t].op = "dealloc"
    /\ LET h == pc[t].h
           c == parts[h].whole.cell
       IN  /\ teardowns' = [teardowns EXCEPT ![c] = @ + 1]
           /\ freedBy' = [freedBy EXCEPT ![c] = [thread |-> t, h |-> h]]
           /\ uaf' = (uaf \/ ~IsAlloc(c))
           /\ heap' = [heap EXCEPT ![c] = FreedCell]
           /\ parts' = [parts EXCEPT ![h].state = "dropped"]
           /\ pc' = [pc EXCEPT ![t] = Idle]
    /\ UNCHANGED <<calls, panicked>>

Next ==
    \/ \E w \in Wholes : Split(Main, w) /\ UNCHANGED aux
    \/ \E t \in Threads, h \in Handles : Deref(t, h) /\ UNCHANGED aux
    \/ \E t \in Threads, h \in Handles : \E v \in ValsOf(h[2]) :
          DerefMut(t, h, v) /\ UNCHANGED aux
    \/ \E t \in Threads, h \in Handles : DropSwap(t, h) /\ UNCHANGED aux
    \/ \E t \in Threads : DropFence(t) /\ UNCHANGED aux
    \/ \E t \in Threads : DropDealloc(t) /\ UNCHANGED aux

Spec == Init /\ [][Next]_vars

\* ------------------------------------------------------------------ forwarding
\* The sub-object type T of the forwarding impls, here an owning iterator
\* over a sequence (T: Iterator + DoubleEndedIterator + ExactSizeIterator).
Items == {"a", "b"}
Iters == UNION {[1..n -> Items] : n \in 0..MaxLen}
IterWholes == {w \in Iters \X Iters : Len(w[1]) + Len(w[2]) <= MaxLen}
NoItem == [some |-> FALSE, item |-> "none"]
NoUpper == [some |-> FALSE, n |-> 0]

\* T::next: the first item, if any, and the iterator after it.
T_next(it) ==
    IF it = <<>> THEN [ret |-> NoItem, it |-> it]
    ELSE [ret |-> [some |-> TRUE, item |-> Head(it)], it |-> Tail(it)]
\* T::next_back: the last item, if any, and the iterator before it.
T_next_back(it) ==
    IF it = <<>> THEN [ret |-> NoItem, it |-> it]
    ELSE [ret |-> [some |-> TRUE, item |-> it[Len(it)]],
          it |-> SubSeq(it, 1, Len(it) - 1)]
\* T::len and T::size_hint of an exact-size iterator.
T_len(it) == Len(it)
T_size_hint(it) == <<Len(it), [some |-> TRUE, n |-> Len(it)]>>

\* sync.rs:334-345  Iterator for Part: next is (**self).next().
Part_next_ret(h) == T_next(deref(h)).ret
\* sync.rs:347-356  DoubleEndedIterator for Part.
Part_next_back_ret(h) == T_next_back(deref(h)).ret
\* sync.rs:358-368  ExactSizeIterator for Part: len is (**self).len().
Part_len(h) == T_len(deref(h))
\* sync.rs:334-345  Iterator for Part defines next alone, so size_hint is the
\* trait's provided method, which returns (0, None).
Part_size_hint(h) == <<0, NoUpper>>

\* A call through the handle that leaves the sub-object as `it`.
ForwardMut(t, h, it) ==
    /\ parts[h].state = "live"
    /\ pc[t] = Idle
    /\ ~panicked
    /\ LET p == parts[h].ptr
       IN  IF IsAlloc(p.cell)
           THEN /\ heap' = [heap EXCEPT ![p.cell].value[p.field] = it]
                /\ uaf' = uaf
           ELSE /\ heap' = heap
                /\ uaf' = TRUE
    /\ UNCHANGED <<parts, pc, teardowns, freedBy, calls, panicked>>

\* sync.rs:341-344  Part::next called by thread t.
PartNext(t, h) ==
    /\ parts[h].state = "live"
    /\ ForwardMut(t, h, T_next(deref(h)).it)

\* sync.rs:352-355  Part::next_back called by thread t.
PartNextBack(t, h) ==
    /\ parts[h].state = "live"
    /\ ForwardMut(t, h, T_next_back(deref(h)).it)

NextIter ==
    \/ \E w \in IterWholes : Split(Main, w) /\ UNCHANGED aux
    \/ \E t \in Threads, h \in Handles : PartNext(t, h) /\ UNCHANGED aux
    \/ \E t \in Threads, h \in Handles : PartNextBack(t, h) /\ UNCHANGED aux
    \/ \E t \in Threads, h \in Handles : DropSwap(t, h) /\ UNCHANGED aux
    \/ \E t \in Threads : DropFence(t) /\ UNCHANGED aux
    \/ \E t \in Threads : DropDealloc(t) /\ UNCHANGED aux

\* Splits of pairs of iterators, used through the forwarding impls.
SpecIter == Init /\ [][NextIter]_vars

\* ------------------------------------------------------------------ counter
\* The reference-counter protocol of the design notes, run in lock step with
\* the flag protocol: a counter set to 2 by split, decremented by each
\* destruction, whose cell is freed by the destruction that brings it to 0.
RcSplit(c) ==
    rc' = [rc EXCEPT !.count[c] = 2]
RcDecrement(t, c) ==
    rc' = [rc EXCEPT !.count[c] = @ - 1,
                     !.pc[t] = IF rc.count[c] - 1 = 0 THEN "fence" ELSE "idle"]
RcFence(t) ==
    rc' = [rc EXCEPT !.pc[t] = IF @ = "fence" THEN "dealloc" ELSE @]
RcDealloc(t, c) ==
    rc' = IF rc.pc[t] = "dealloc"
          THEN [rc EXCEPT !.freed[c] = TRUE, !.pc[t] = "idle"]
          ELSE rc

SplitRc(w) ==
    Split(Main, w) /\ RcSplit(Box_new) /\ UNCHANGED <<ops, last, pair, mm>>
DropSwapRc(t, h) ==
    DropSwap(t, h) /\ RcDecrement(t, h[1]) /\ UNCHANGED <<ops, last, pair, mm>>
DropFenceRc(t) ==
    DropFence(t) /\ RcFence(t) /\ UNCHANGED <<ops, last, pair, mm>>
DropDeallocRc(t) ==
    DropDealloc(t) /\ RcDealloc(t, pc[t].h[1])
        /\ UNCHANGED <<ops, last, pair, mm>>

NextRc ==
    \/ \E w \in Wholes : SplitRc(w)
    \/ \E t \in Threads, h \in Handles : DropSwapRc(t, h)
    \/ \E t \in Threads : DropFenceRc(t)
    \/ \E t \in Threads : DropDeallocRc(t)

\* The flag protocol and the counter protocol side by side.
SpecRc == Init /\ [][NextRc]_vars

\* ------------------------------------------------------------------ fairness
\* WholeRef::drop with each of its operations counted per handle.  The
\* sub-objects are read but not written here: C15 shows writes leave the
\* flag, the allocation state and every pc alone.
Count(h, op) == ops' = [ops EXCEPT ![h][op] = @ + 1]

SplitOps(w) == Split(Main, w) /\ UNCHANGED aux
DerefOps(t, h) == Deref(t, h) /\ UNCHANGED aux
DropSwapOps(t, h) ==
    DropSwap(t, h) /\ Count(h, "swaps") /\ UNCHANGED <<rc, last, pair, mm>>
DropFenceOps(t) ==
    DropFence(t) /\ Count(pc[t].h, "fences") /\ UNCHANGED <<rc, last, pair, mm>>
DropDeallocOps(t) ==
    DropDealloc(t) /\ Count(pc[t].h, "deallocs")
        /\ UNCHANGED <<rc, last, pair, mm>>

NextOps ==
    \/ \E w \in Wholes : SplitOps(w)
    \/ \E t \in Threads, h \in Handles : DerefOps(t, h)
    \/ \E t \in Threads, h \in Handles : DropSwapOps(t, h)
    \/ \E t \in Threads : DropFenceOps(t)
    \/ \E t \in Threads : DropDeallocOps(t)

\* A thread that has begun a destruction keeps running: drop is straight-line
\* code, so its fence and its deallocation are taken once they are enabled.
\* Nothing forces a live handle to be dropped.
SpecFair ==
    /\ Init
    /\ [][NextOps]_vars
    /\ \A t \in Threads : WF_vars(DropFenceOps(t)) /\ WF_vars(DropDeallocOps(t))

\* ------------------------------------------------------------------ aliasing
\* split() and the writes through its handles, with the value last written
\* through each handle recorded (at first the half passed to split).
SplitAlias(w) ==
    /\ Box_new <= MaxWatchedSplits
    /\ Split(Main, w)
    /\ last' = [last EXCEPT ![<<Box_new, "left">>] = w[1],
                            ![<<Box_new, "right">>] = w[2]]
    /\ UNCHANGED <<rc, ops, pair, mm>>
DerefMutAlias(t, h, v) ==
    DerefMut(t, h, v) /\ last' = [last EXCEPT ![h] = v]
        /\ UNCHANGED <<rc, ops, pair, mm>>
DropSwapAlias(t, h) == DropSwap(t, h) /\ UNCHANGED aux
DropFenceAlias(t) == DropFence(t) /\ UNCHANGED aux
\* W's teardown runs on heap[c].value as it is before this step.
DropDeallocAlias(t) ==
    /\ DropDealloc(t)
    /\ last' = [h \in Handles |->
                   IF h[1] = pc[t].h[1] THEN "none" ELSE last[h]]
    /\ UNCHANGED <<rc, ops, pair, mm>>

\* lib.rs:24  `let mut value = (..)`: a pair owned by the caller.
PairLet(w) ==
    /\ pair.state = "none"
    /\ pair' = [state |-> "owned", value |-> w, refs |-> <<0, 0>>,
                written |-> w]
    /\ UNCHANGED <<heap, parts, pc, teardowns, freedBy, calls, uaf, panicked,
                   rc, ops, last, mm>>
\* lib.rs:26, 42-48  `let (left, right) = value.split_mut()`.
PairSplitMut ==
    /\ pair.state = "owned"
    /\ pair' = [pair EXCEPT !.state = "borrowed",
                            !.refs = split_mut(pair.value)]
    /\ UNCHANGED <<heap, parts, pc, teardowns, freedBy, calls, uaf, panicked,
                   rc, ops, last, mm>>
\* lib.rs:27  `*right = v` (i = 2) or `*left = v` (i = 1).
PairWrite(i, v) ==
    /\ pair.state = "borrowed"
    /\ pair' = [pair EXCEPT !.value[pair.refs[i]] = v, !.written[i] = v]
    /\ UNCHANGED <<heap, parts, pc, teardowns, freedBy, calls, uaf, panicked,
                   rc, ops, last, mm>>
\* lib.rs:31  the block ends and with it the borrow.
PairEndBorrow ==
    /\ pair.state = "borrowed"
    /\ pair' = [pair EXCEPT !.state = "owned", !.refs = <<0, 0>>]
    /\ UNCHANGED <<heap, parts, pc, teardowns, freedBy, calls, uaf, panicked,
                   rc, ops, last, mm>>

NextAlias ==
    \/ \E w \in Wholes : SplitAlias(w)
    \/ \E t \in Threads, h \in Handles : \E v \in ValsOf(h[2]) :
          DerefMutAlias(t, h, v)
    \/ \E t \in Threads, h \in Handles : DropSwapAlias(t, h)
    \/ \E t \in Threads : DropFenceAlias(t)
    \/ \E t \in Threads : DropDeallocAlias(t)
    \/ \E w \in Wholes : PairLet(w)
    \/ PairSplitMut
    \/ \E v \in LVals : PairWrite(1, v)
    \/ \E v \in RVals : PairWrite(2, v)
    \/ PairEndBorrow

\* Owned and borrowed splits with the written values followed.
SpecAlias == Init /\ [][NextAlias]_vars

\* ------------------------------------------------------------------ ordering
\* A release/acquire memory model of the flag.  An event <<h, "sub">> stands
\* for the writes made so far to the sub-object of handle h, <<h, "flag">>
\* for the flag write of h's destruction.
\*   mm.view[t]      the events that happen-before thread t's next step
\*   mm.released[c]  the events published by the release writes to c's flag
\*   mm.read[t]      the events published by the write t's swap read from
\*   mm.gained[t]    the events t's fence added to its view
Sub(h) == <<h, "sub">>
Flag(h) == <<h, "flag">>
EventsOf(c) == {<<c, "left">>, <<c, "right">>} \X {"sub", "flag"}

\* sync.rs:118  the ordering of the swap.
SwapOrderingRelaxed == "Relaxed"
SwapOrdering == "Release"
\* sync.rs:120  the ordering of the fence.
FenceOrderingRelaxed == "Relaxed"
FenceOrdering == "Acquire"
Publishes(ordering) == ordering \in {"Release", "AcqRel", "SeqCst"}
Acquires(ordering) == ordering \in {"Acquire", "AcqRel", "SeqCst"}

\* The creating thread has initialised both sub-objects.
SplitOrder(w) ==
    /\ Box_new <= MaxWatchedSplits
    /\ Split(Main, w)
    /\ mm' = [mm EXCEPT !.view[Main] =
                 @ \cup {Sub(<<Box_new, "left">>), Sub(<<Box_new, "right">>)}]
    /\ UNCHANGED <<rc, ops, last, pair>>

\* sync.rs:141-152  a read through a handle orders nothing.
DerefOrder(t, h) ==
    /\ Deref(t, h)
    /\ UNCHANGED aux

\* A new write through h: it is in the writer's past, in no other thread's,
\* and nothing published earlier covers it.
DerefMutOrder(t, h, v) ==
    /\ DerefMut(t, h, v)
    /\ mm' = [view |-> [u \in Threads |->
                          IF u = t THEN mm.view[u] \cup {Sub(h)}
                          ELSE mm.view[u] \ {Sub(h)}],
              released |-> [c \in Cells |-> mm.released[c] \ {Sub(h)}],
              read |-> [u \in Threads |-> mm.read[u] \ {Sub(h)}],
              gained |-> [u \in Threads |-> mm.gained[u] \ {Sub(h)}]]
    /\ UNCHANGED <<rc, ops, last, pair>>

\* sync.rs:118  swap(true, Ordering::Release): a read-modify-write.  It reads
\* the latest write to the flag and, being part of that write's release
\* sequence, publishes what it published; as a release it also publishes
\* the swapping thread's past and the flag write itself.  The handle
\* reached the swapping thread by a transfer that synchronizes, so the
\* writes made through it are in that thread's past.
DropSwapOrder(t, h) ==
    /\ DropSwap(t, h)
    /\ LET c == h[1]
           rd == IF heap[c].should_drop_value THEN mm.released[c] ELSE {}
           v1 == mm.view[t] \cup {Sub(h)}
           v2 == IF Acquires(SwapOrdering) THEN v1 \cup rd ELSE v1
           pub == IF Publishes(SwapOrdering) THEN v2 \cup {Flag(h)} ELSE {}
       IN  mm' = [mm EXCEPT !.view[t] = v2,
                            !.released[c] = @ \cup pub,
                            !.read[t] = rd,
                            !.gained[t] = {}]
    /\ UNCHANGED <<rc, ops, last, pair>>

\* sync.rs:120  fence(Ordering::Acquire) after the swap: the release write
\* the swap read from synchronizes with the fence.
DropFenceOrder(t) ==
    /\ DropFence(t)
    /\ LET add == IF Acquires(FenceOrdering) THEN mm.read[t] ELSE {}
       IN  mm' = [mm EXCEPT !.view[t] = @ \cup add,
                            !.gained[t] = add \ mm.view[t]]
    /\ UNCHANGED <<rc, ops, last, pair>>

\* sync.rs:121  the teardown and the deallocation; the cell's events end.
DropDeallocOrder(t) ==
    /\ DropDealloc(t)
    /\ LET c == pc[t].h[1]
       IN  mm' = [view |-> [u \in Threads |-> mm.view[u] \ EventsOf(c)],
                  released |-> [mm.released EXCEPT ![c] = {}],
                  read |-> [mm.read EXCEPT ![t] = {}],
                  gained |-> [mm.gained EXCEPT ![t] = {}]]
    /\ UNCHANGED <<rc, ops, last, pair>>

NextOrder ==
    \/ \E w \in Wholes : SplitOrder(w)
    \/ \E t \in Threads, h \in Handles : DerefOrder(t, h)
    \/ \E t \in Threads, h \in Handles : \E v \in ValsOf(h[2]) :
          DerefMutOrder(t, h, v)
    \/ \E t \in Threads, h \in Handles : DropSwapOrder(t, h)
    \/ \E t \in Threads : DropFenceOrder(t)
    \/ \E t \in Threads : DropDeallocOrder(t)

\* The protocol under the release/acquire memory model.
SpecOrder == Init /\ [][NextOrder]_vars

\* ------------------------------------------------------------------ nesting
\* split() on a handle: W is Part<(L, R), ((L, R), R)>.  The outer whole is a
\* pair whose first field is itself a pair.
NestedWholes == {<<w, "delicieux">> : w \in Wholes}

\* Whether the value of cell c is a Part (a handle, named by cell and side)
\* rather than a pair.
HoldsPart(c) == heap[c].value[2] \in Sides

\* sync.rs:61 with W = Part: the raw pointer to a field of the sub-object
\* that pointer p targets.
AsMutPtrIn(p, f) == [cell |-> p.cell, field |-> p.field, sub |-> f]

\* sync.rs:48-73  split(l) by thread t: l moves into a new cell, and
\* sync.rs:86-97  Part::split_mut is (**self).split_mut(): it goes through
\* l's own pointer and splits the sub-object of l.
SplitPart(t, l) ==
    /\ pc[t] = Idle
    /\ ~panicked
    /\ Box_new \in Cells
    /\ parts[l].state = "live"
    /\ l[2] = "left"
    /\ ~HoldsPart(l[1])
    /\ LET c == Box_new
           cell == [state |-> "alloc", should_drop_value |-> InitFlag,
                    value |-> l]
           base == parts[l].ptr
           refs == split_mut(deref(l))
           left == AsMutPtrIn(base, refs[1])
           right == AsMutPtrIn(base, refs[2])
           holder == NonNull_new(Box_into_raw(c))
           lptr == NonNull_new(left)
           rptr == NonNull_new(right)
           ok == holder.some /\ lptr.some /\ rptr.some
       IN  /\ heap' = [heap EXCEPT ![c] = cell]
           /\ calls' = [calls EXCEPT ![c] =
                          [by |-> t, allocs |-> 1, split_muts |-> 1]]
           /\ uaf' = (uaf \/ ~IsAlloc(base.cell))
           /\ panicked' = ~ok
           /\ parts' = IF ok
                THEN [parts EXCEPT
                        ![l].state = "moved",
                        ![<<c, "left">>] = [state |-> "live", owner |-> "nobody",
                            whole |-> holder.ptr, ptr |-> lptr.ptr, prev |-> "none"],
                        ![<<c, "right">>] = [state |-> "live", owner |-> "nobody",
                            whole |-> holder.ptr, ptr |-> rptr.ptr, prev |-> "none"]]
                ELSE [parts EXCEPT ![l].state = "moved"]
    /\ UNCHANGED <<pc, teardowns, freedBy>>

\* sync.rs:160-162  `*h = v` through a handle made by split(l): the write
\* lands in a field of a field of the outer cell.
DerefMutSub(t, h, v) ==
    /\ parts[h].state = "live"
    /\ pc[t] = Idle
    /\ ~panicked
    /\ "sub" \in DOMAIN parts[h].ptr
    /\ LET p == parts[h].ptr
       IN  IF IsAlloc(p.cell)
           THEN /\ heap' = [heap EXCEPT ![p.cell].value[p.field][p.sub] = v]
                /\ uaf' = uaf
           ELSE /\ heap' = heap
                /\ uaf' = TRUE
    /\ UNCHANGED <<parts, pc, teardowns, freedBy, calls, panicked>>

\* A write through a handle whose sub-object is not a pair.
DerefMutLeaf(t, h, v) ==
    /\ h[2] = "right"
    /\ "sub" \notin DOMAIN parts[h].ptr
    /\ DerefMut(t, h, v)

\* sync.rs:121  freeing a cell whose value is a pair.
DropDeallocPair(t) ==
    /\ pc[t].op = "dealloc"
    /\ DOMAIN pc[t] = {"op", "h"}
    /\ ~HoldsPart(parts[pc[t].h].whole.cell)
    /\ DropDealloc(t)

\* sync.rs:121  drop(Box::from_raw(..)) of a cell whose value is a Part: the
\* value's teardown is the drop of that Part, that is WholeRef::drop
\* (sync.rs:112-119) on the outer cell, run by the same thread before the
\* inner allocation is returned.
DropValuePart(t) ==
    /\ pc[t].op = "dealloc"
    /\ DOMAIN pc[t] = {"op", "h"}
    /\ HoldsPart(parts[pc[t].h].whole.cell)
    /\ LET h == pc[t].h
           c == parts[h].whole.cell
           l == heap[c].value
           o == parts[l].whole.cell
       IN \E prev \in BOOLEAN :
           /\ teardowns' = [teardowns EXCEPT ![c] = @ + 1]
           /\ IF IsAlloc(o)
              THEN /\ prev = heap[o].should_drop_value
                   /\ heap' = [heap EXCEPT ![o].should_drop_value = SwapValue]
                   /\ uaf' = uaf
              ELSE /\ heap' = heap
                   /\ uaf' = TRUE
           /\ IF ShouldDropValue(prev)
              THEN /\ parts' = [parts EXCEPT ![l].state = "dropping",
                                             ![l].owner = t,
                                             ![l].prev = Bool2Str(prev)]
                   /\ pc' = [pc EXCEPT ![t] =
                                [op |-> "fence", h |-> l, box |-> h]]
              ELSE /\ parts' = [parts EXCEPT ![l].state = "dropped",
                                             ![l].owner = t,
                                             ![l].prev = Bool2Str(prev)]
                   /\ pc' = [pc EXCEPT ![t] = [op |-> "free", h |-> h]]
    /\ UNCHANGED <<freedBy, calls, panicked>>

\* sync.rs:121  the boxed Part's destruction frees the outer cell, then goes
\* back to freeing the inner one.
DropDeallocBoxed(t) ==
    /\ pc[t].op = "dealloc"
    /\ "box" \in DOMAIN pc[t]
    /\ LET l == pc[t].h
           o == parts[l].whole.cell
       IN  /\ teardowns' = [teardowns EXCEPT ![o] = @ + 1]
           /\ freedBy' = [freedBy EXCEPT ![o] = [thread |-> t, h |-> l]]
           /\ uaf' = (uaf \/ ~IsAlloc(o))
           /\ heap' = [heap EXCEPT ![o] = FreedCell]
           /\ parts' = [parts EXCEPT ![l].state = "dropped"]
           /\ pc' = [pc EXCEPT ![t] = [op |-> "free", h |-> pc[t].box]]
    /\ UNCHANGED <<calls, panicked>>

\* sync.rs:121  the inner allocation is returned once its value is torn down.
FreeBox(t) ==
    /\ pc[t].op = "free"
    /\ LET h == pc[t].h
           c == parts[h].whole.cell
       IN  /\ freedBy' = [freedBy EXCEPT ![c] = [thread |-> t, h |-> h]]
           /\ uaf' = (uaf \/ ~IsAlloc(c))
           /\ heap' = [heap EXCEPT ![c] = FreedCell]
           /\ parts' = [parts EXCEPT ![h].state = "dropped"]
           /\ pc' = [pc EXCEPT ![t] = Idle]
    /\ UNCHANGED <<teardowns, calls, panicked>>

NextNested ==
    \/ \E w \in NestedWholes : Split(Main, w) /\ UNCHANGED aux
    \/ \E l \in Handles : SplitPart(Main, l) /\ UNCHANGED aux
    \/ \E t \in Threads, h \in Handles : Deref(t, h) /\ UNCHANGED aux
    \/ \E t \in Threads, h \in Handles : \E v \in ValsOf(h[2]) :
          DerefMutSub(t, h, v) /\ UNCHANGED aux
    \/ \E t \in Threads, h \in Handles : \E v \in ValsOf(h[2]) :
          DerefMutLeaf(t, h, v) /\ UNCHANGED aux
    \/ \E t \in Threads, h \in Handles : DropSwap(t, h) /\ UNCHANGED aux
    \/ \E t \in Threads : DropFence(t) /\ UNCHANGED aux
    \/ \E t \in Threads : DropDeallocPair(t) /\ UNCHANGED aux
    \/ \E t \in Threads : DropValuePart(t) /\ UNCHANGED aux
    \/ \E t \in Threads : DropDeallocBoxed(t) /\ UNCHANGED aux
    \/ \E t \in Threads : FreeBox(t) /\ UNCHANGED aux

\* Splits of pairs of pairs and of the handles to their first fields.
SpecNested == Init /\ [][NextNested]_vars

\* ------------------------------------------------------------------ claims
Swapped(h) == parts[h].state \in {"dropping", "dropped"}
Dropped(h) == parts[h].state = "dropped"
L(c) == <<c, "left">>
R(c) == <<c, "right">>

\* C1: once both handles of a split are destroyed, the cell is deallocated
\* and the whole value's teardown has run exactly once; it never runs more
\* than once.
C1_TeardownExactlyOnce ==
    \A c \in Cells :
        /\ teardowns[c] <= 1
        /\ (Dropped(L(c)) /\ Dropped(R(c)))
              => (heap[c].state = "freed" /\ teardowns[c] = 1)

\* Cell 1: left then right on two threads; cell 2: right then left on one.
C1_Witness ==
    /\ Dropped(L(1)) /\ Dropped(R(1)) /\ Dropped(L(2)) /\ Dropped(R(2))
    /\ parts[L(1)].prev = "false" /\ parts[L(1)].owner = "A"
    /\ parts[R(1)].prev = "true" /\ parts[R(1)].owner = "B"
    /\ parts[R(2)].prev = "false" /\ parts[R(2)].owner = "B"
    /\ parts[L(2)].prev = "true" /\ parts[L(2)].owner = "B"
    /\ teardowns[1] = 1 /\ teardowns[2] = 1

\* C2: a deallocated cell (a teardown that has run) means both handles have
\* performed their flag swap; while a handle is live the cell stays
\* allocated and its teardown count stays 0.
C2_FreedOnlyAfterBothSwaps ==
    \A c \in Cells :
        /\ (heap[c].state = "freed" \/ teardowns[c] > 0)
              => \A s \in Sides : Swapped(<<c, s>>) /\ parts[<<c, s>>].prev # "none"
        /\ (\E s \in Sides : parts[<<c, s>>].state = "live")
              => (heap[c].state = "alloc" /\ teardowns[c] = 0)

\* One handle destroyed, its sibling still live (or leaked).
C2_Witness ==
    /\ Dropped(L(1)) /\ parts[R(1)].state = "live"
    /\ heap[1].state = "alloc" /\ teardowns[1] = 0
    /\ heap[2].state = "freed"

RECURSIVE SumTeardowns(_)
SumTeardowns(n) == IF n = 0 THEN 0 ELSE teardowns[n] + SumTeardowns(n - 1)

\* Every destruction so far was of a left handle on A or a right handle on B.
LeftsOnA_RightsOnB ==
    \A h \in Handles :
        Swapped(h) => parts[h].owner = (IF h[2] = "left" THEN "A" ELSE "B")
AllDropped == \A h \in Handles : Dropped(h)

\* C3: with the left handles of N splits destroyed on thread A and the right
\* handles on thread B, in every interleaving exactly one of the two swaps
\* of a split reads back "finalized", the total teardown count after both
\* threads finish is N, and a cell is freed only by one of its own handles.
C3_ConcurrentDropsTeardownN ==
    LeftsOnA_RightsOnB =>
        /\ \A c \in Cells :
              (Swapped(L(c)) /\ Swapped(R(c)))
                 => (parts[L(c)].prev = "true") # (parts[R(c)].prev = "true")
        /\ \A c \in Cells : freedBy[c] # Nobody => freedBy[c].h[1] = c
        /\ AllDropped =>
              /\ SumTeardowns(MaxSplits) = MaxSplits
              /\ \A c \in Cells : teardowns[c] = 1

\* All splits done with both outcomes: A frees cell 1, B frees cell 2.
C3_Witness ==
    /\ LeftsOnA_RightsOnB /\ AllDropped
    /\ freedBy[1] = [thread |-> "A", h |-> L(1)]
    /\ freedBy[2] = [thread |-> "B", h |-> R(2)]

\* C4: no access to a cell happens after it is deallocated: every live
\* handle's sub-pointer and cell reference target an allocated cell, and so
\* does the reference of a destruction that is about to free.
C4_NoUseAfterFree ==
    /\ ~uaf
    /\ \A h \in Handles :
          parts[h].state = "live"
             => IsAlloc(parts[h].ptr.cell) /\ IsAlloc(parts[h].whole.cell)
    /\ \A t \in Threads :
          pc[t].op # "idle" => IsAlloc(parts[pc[t].h].whole.cell)

\* The first handle is gone, its sibling is about to free the cell.
C4_Witness ==
    /\ Dropped(R(1)) /\ pc["B"] = [op |-> "dealloc", h |-> L(1)]
    /\ heap[2].state = "freed" /\ ~uaf

\* C5: a write through a handle changes what that handle reads and nothing
\* that any other live handle reads.
C5_WriteFrame ==
    [][\A t \in Threads, h \in Handles : \A v \in ValsOf(h[2]) :
          DerefMut(t, h, v) =>
             /\ deref(h)' = v
             /\ \A g \in Handles \ {h} :
                   parts[g].state = "live" => deref(g)' = deref(g)]_vars

\* split(("baguette", "delicieux")), then "exquis" written through the right.
C5_Witness ==
    /\ parts[L(1)].state = "live" /\ parts[R(1)].state = "live"
    /\ deref(L(1)) = "baguette" /\ deref(R(1)) = "exquis"

\* C6: immediately after split((A, B)) the left handle dereferences to A and
\* the right handle to B.
C6_SplitRoundTrip ==
    [][\A w \in Wholes, c \in Cells :
          (c = Box_new /\ Split(Main, w) /\ ~panicked') =>
             deref(L(c))' = w[1] /\ deref(R(c))' = w[2]]_vars

C6_Witness ==
    /\ parts[L(2)].state = "live" /\ parts[R(2)].state = "live"
    /\ deref(L(2)) = "hello" /\ deref(R(2)) = "delicieux"
    /\ deref(L(1)) = "baguette"

\* C7: each split call makes one allocation with the flag "not finalized",
\* calls split_mut once and returns two handles on that one cell; no later
\* operation allocates or changes a handle's cell or sub-pointer.
C7_Inv ==
    /\ Cardinality(Allocated) = Cardinality({c \in Cells : calls[c] # NoCall})
    /\ \A c \in Cells :
          calls[c] # NoCall =>
             /\ calls[c].allocs = 1 /\ calls[c].split_muts = 1
             /\ heap[c].state # "unalloc"
             /\ \A s \in Sides :
                   /\ parts[<<c, s>>].state # "none"
                   /\ parts[<<c, s>>].whole = [cell |-> c, field |-> 0]
                   /\ parts[<<c, s>>].ptr.cell = c
    /\ \A h \in Handles : parts[h].state # "none" => calls[h[1]] # NoCall
C7_Step ==
    /\ \A w \in Wholes :
          Split(Main, w) => ~heap'[Box_new].should_drop_value
    /\ \A h \in Handles :
          parts[h].state # "none"
             => parts'[h].whole = parts[h].whole /\ parts'[h].ptr = parts[h].ptr
    /\ (Allocated' # Allocated \/ calls' # calls)
          => \E w \in Wholes : Split(Main, w)
C7_OneCellPerSplit == []C7_Inv /\ [][C7_Step]_vars

C7_Witness ==
    /\ calls[1] # NoCall /\ calls[2] # NoCall
    /\ heap[1].state = "freed"
    /\ parts[L(2)].state = "live" /\ Dropped(R(2))

\* C8: the teardown is run by the thread of the second destruction, the one
\* whose swap read back "finalized", whichever handle that is.
C8_SecondDropFrees ==
    \A c \in Cells :
        teardowns[c] > 0 =>
            LET f == freedBy[c]
            IN  /\ f.h \in {L(c), R(c)}
                /\ parts[f.h].prev = "true"
                /\ parts[f.h].owner = f.thread
                /\ parts[Sibling(f.h)].prev = "false"
                /\ Dropped(Sibling(f.h))

\* Left frees cell 1; right frees cell 2 on a thread that did not call split.
C8_Witness ==
    /\ teardowns[1] = 1 /\ freedBy[1].h = L(1)
    /\ teardowns[2] = 1 /\ freedBy[2].h = R(2)
    /\ freedBy[2].thread # calls[2].by

\* C9: no public operation panics: split never takes an expect("never
\* null") failure path, and dereferencing or destroying never panics.
C9_NoPanic == ~panicked

C9_Witness ==
    /\ ~panicked
    /\ heap[1].state = "freed"
    /\ parts[L(2)].state = "live" /\ parts[R(2)].state = "live"
    /\ deref(R(2)) = "exquis"

\* C10: a handle forwards every capability of its sub-object unchanged:
\* each iterator operation invoked on the handle gives the result it gives
\* on the sub-object itself.
C10_ForwardsEveryCapability ==
    \A h \in Handles :
        parts[h].state = "live" =>
            /\ Part_next_ret(h) = T_next(deref(h)).ret
            /\ Part_next_back_ret(h) = T_next_back(deref(h)).ret
            /\ Part_len(h) = T_len(deref(h))
            /\ Part_size_hint(h) = T_size_hint(deref(h))

\* C14: the destruction that finishes first (its swap read "not finalized")
\* changes only the flag: the cell stays allocated with both sub-objects as
\* they were, and no fence, teardown or deallocation is started.
C14_FirstDropOnlySetsFlag ==
    [][\A t \in Threads, h \in Handles :
          (DropSwap(t, h) /\ parts'[h].prev = "false") =>
             /\ heap' = [heap EXCEPT ![h[1]].should_drop_value = TRUE]
             /\ heap'[h[1]].state = "alloc"
             /\ heap'[h[1]].value = heap[h[1]].value
             /\ parts'[h].state = "dropped"
             /\ pc' = pc /\ teardowns' = teardowns /\ freedBy' = freedBy]_vars

\* Left destroyed first after writes through both handles; right still live.
C14_Witness ==
    /\ Dropped(L(1)) /\ parts[L(1)].prev = "false"
    /\ parts[R(1)].state = "live"
    /\ heap[1] = [state |-> "alloc", should_drop_value |-> TRUE,
                  value |-> <<"hello", "exquis">>]
    /\ calls[2] = NoCall
    /\ teardowns[1] = 0 /\ pc = [t \in Threads |-> Idle]

\* The finalization flag and allocation state of every cell.
FlagAndState(c) == <<heap[c].should_drop_value, heap[c].state>>

\* C15: reading or writing through a handle never touches a cell's flag or
\* allocation state; on an allocated cell these change only in a step of a
\* destruction of one of its handles.
C15_AccessDoesNotSynchronize ==
    [][/\ \A t \in Threads, h \in Handles :
             Deref(t, h) => \A c \in Cells : FlagAndState(c)' = FlagAndState(c)
       /\ \A t \in Threads, h \in Handles : \A v \in ValsOf(h[2]) :
             DerefMut(t, h, v) =>
                \A c \in Cells : FlagAndState(c)' = FlagAndState(c)
       /\ \A c \in Cells :
             (IsAlloc(c) /\ FlagAndState(c)' # FlagAndState(c)) =>
                \E t \in Threads, s \in Sides :
                   \/ DropSwap(t, <<c, s>>)
                   \/ DropDealloc(t) /\ pc[t].h = <<c, s>>]_vars

\* Both handles live and written through, the flag still "not finalized".
C15_Witness ==
    /\ parts[L(1)].state = "live" /\ parts[R(1)].state = "live"
    /\ heap[1] = [state |-> "alloc", should_drop_value |-> FALSE,
                  value |-> <<"hello", "exquis">>]
    /\ calls[2] = NoCall

\* C18: the flag is one-shot: on an allocated cell it is "finalized" exactly
\* when one of the two handles has performed its swap, and once "finalized"
\* it stays so for as long as the cell is allocated.
C18_Inv ==
    \A c \in Cells :
        IsAlloc(c) =>
            (heap[c].should_drop_value <=> \E s \in Sides : Swapped(<<c, s>>))
C18_Step ==
    \A c \in Cells :
        (IsAlloc(c) /\ heap[c].should_drop_value /\ heap'[c].state = "alloc")
            => heap'[c].should_drop_value
C18_FlagOneShot == []C18_Inv /\ [][C18_Step]_vars

\* Cell 1 finalized by its right handle, cell 2 not yet.
C18_Witness ==
    /\ IsAlloc(1) /\ heap[1].should_drop_value
    /\ Dropped(R(1)) /\ parts[L(1)].state = "live"
    /\ IsAlloc(2) /\ ~heap[2].should_drop_value
    /\ parts[L(2)].state = "live" /\ parts[R(2)].state = "live"

Created(c) == calls[c] # NoCall
BothSwapped(c) == Swapped(L(c)) /\ Swapped(R(c))

\* C12 as stated: in every state, flag = false iff count = 2, flag = true and
\* cell allocated iff count = 1, cell freed iff count = 0.
C12_FlagIsCounterOfTwo ==
    \A c \in Cells :
        Created(c) =>
            /\ (IsAlloc(c) /\ ~heap[c].should_drop_value) <=> rc.count[c] = 2
            /\ (IsAlloc(c) /\ heap[c].should_drop_value) <=> rc.count[c] = 1
            /\ heap[c].state = "freed" <=> rc.count[c] = 0

\* C12 amended: flag = false iff count = 2; flag = true with one swap done
\* iff count = 1; count = 0 iff both swaps are done, the cell then being
\* freed or about to be freed by the destruction whose swap read
\* "finalized"; and both protocols fence and free at the same steps.
C12_FlagIsCounterBetweenSwaps ==
    /\ \A c \in Cells :
          Created(c) =>
             /\ (IsAlloc(c) /\ ~heap[c].should_drop_value) <=> rc.count[c] = 2
             /\ (IsAlloc(c) /\ heap[c].should_drop_value /\ ~BothSwapped(c))
                   <=> rc.count[c] = 1
             /\ BothSwapped(c) <=> rc.count[c] = 0
             /\ rc.count[c] = 0 =>
                   \/ heap[c].state = "freed"
                   \/ \E t \in Threads : pc[t].op # "idle" /\ pc[t].h[1] = c
             /\ heap[c].state = "freed" <=> rc.freed[c]
    /\ \A t \in Threads : rc.pc[t] = pc[t].op

\* One cell freed by both protocols, the other between its second swap and
\* its deallocation with the counter already at 0.
C12_Witness ==
    /\ rc.freed[1] /\ heap[1].state = "freed"
    /\ rc.count[2] = 0 /\ IsAlloc(2)
    /\ pc["B"] = [op |-> "dealloc", h |-> L(2)] /\ rc.pc["B"] = "dealloc"

\* C16: a destruction performs exactly one swap and, only when that swap
\* read "finalized", one fence and one deallocation; none of its steps waits
\* for the sibling; and once both handles are being destroyed the cell is
\* eventually freed.
C16_Inv ==
    /\ \A h \in Handles :
          LET second == IF parts[h].prev = "true" THEN 1 ELSE 0
          IN  /\ ops[h].swaps = (IF Swapped(h) THEN 1 ELSE 0)
              /\ ops[h].fences <= second /\ ops[h].deallocs <= second
              /\ Dropped(h) => ops[h].fences = second /\ ops[h].deallocs = second
    /\ \A t \in Threads :
          /\ pc[t].op = "fence" => ENABLED DropFenceOps(t)
          /\ pc[t].op = "dealloc" => ENABLED DropDeallocOps(t)
          /\ pc[t].op = "idle" =>
                \A h \in Handles :
                   parts[h].state = "live" => ENABLED DropSwapOps(t, h)
C16_DropTerminates ==
    /\ []C16_Inv
    /\ \A c \in Cells : BothSwapped(c) ~> (heap[c].state = "freed")

\* Cell 1 destroyed left first on A, then right on B which fenced and freed.
C16_Witness ==
    /\ ops[L(1)] = [swaps |-> 1, fences |-> 0, deallocs |-> 0]
    /\ ops[R(1)] = [swaps |-> 1, fences |-> 1, deallocs |-> 1]
    /\ parts[L(1)].owner = "A" /\ parts[R(1)].owner = "B"
    /\ heap[1].state = "freed"
    /\ parts[L(2)].state = "live" /\ Dropped(R(2))

\* C17: the handles alias the whole value's own storage: when the whole
\* value is torn down (for a borrowed pair, when the borrow has ended) it
\* consists of the value last written through the left handle and the value
\* last written through the right handle.
C17_WholeIsLastWritten ==
    /\ \A t \in Threads :
          pc[t].op = "dealloc" =>
             LET c == pc[t].h[1]
             IN  heap[c].value = <<last[L(c)], last[R(c)]>>
    /\ pair.state = "owned" => pair.value = pair.written

\* ("baguette", "delicieux") split twice, owned and borrowed, "exquis"
\* written through both right handles; the cell is about to be torn down
\* and the borrow has ended.
C17_Witness ==
    /\ pc["B"] = [op |-> "dealloc", h |-> L(1)]
    /\ heap[1].value = <<"baguette", "exquis">>
    /\ pair.state = "owned" /\ pair.value = <<"baguette", "exquis">>

\* C11: the second destruction's swap reads the first destruction's release
\* write, and after its acquire fence the writes made through the
\* first-destroyed handle and that handle's flag write happen-before the
\* teardown and deallocation.
C11_FirstHappensBeforeTeardown ==
    \A t \in Threads :
        LET h == pc[t].h
        IN  /\ pc[t].op = "fence" =>
                  {Sub(Sibling(h)), Flag(Sibling(h))} \subseteq mm.read[t]
            /\ pc[t].op = "dealloc" =>
                  {Sub(h), Sub(Sibling(h)), Flag(Sibling(h))} \subseteq mm.view[t]

\* "exquis" was written through the right handle, which was then destroyed
\* on A; B, destroying the left handle, learnt of that write only through
\* its fence and is about to tear the value down.
C11_Witness ==
    /\ pc["B"] = [op |-> "dealloc", h |-> L(1)]
    /\ parts[R(1)].owner = "A" /\ heap[1].value[2] = "exquis"
    /\ {Sub(R(1)), Flag(R(1))} \subseteq mm.gained["B"]

\* The cell c was made by split(l): its handles point into another cell.
Inner(c) == parts[L(c)].state # "none" /\ parts[L(c)].ptr.cell # c
OuterOf(c) == parts[L(c)].ptr.cell
Freed(c) == heap[c].state = "freed"

\* C13: with split(v) = (l, r) and split(l) = (ll, lr), in every order and
\* interleaving of destroying r, ll and lr: nothing is used after it is
\* freed and nothing is freed or torn down twice; the inner cell is freed
\* only after ll and lr are destroyed, the outer cell only after r, ll and lr
\* are, and then no live handle points into it; once all three destructions
\* have returned, each cell has been torn down and freed exactly once.
C13_NestedSplitFreesEachOnce ==
    /\ ~uaf
    /\ \A c \in Cells : teardowns[c] <= 1
    /\ \A c \in Cells :
          Inner(c) =>
             LET o == OuterOf(c)
             IN  /\ Freed(c) => Swapped(L(c)) /\ Swapped(R(c))
                 /\ Freed(o) =>
                       /\ Swapped(R(o)) /\ Swapped(L(c)) /\ Swapped(R(c))
                       /\ \A h \in Handles :
                             parts[h].state = "live" => parts[h].ptr.cell # o
                 /\ (/\ Dropped(R(o)) /\ Dropped(L(c)) /\ Dropped(R(c))
                     /\ \A t \in Threads : pc[t] = Idle)
                       => /\ Freed(c) /\ teardowns[c] = 1
                          /\ Freed(o) /\ teardowns[o] = 1

\* ll was destroyed first, on A; r and lr were destroyed on B, lr last, and
\* its destruction freed the outer cell through l before the inner one.
C13_Witness ==
    /\ Inner(2) /\ OuterOf(2) = 1
    /\ Freed(1) /\ Freed(2)
    /\ parts[L(2)].owner = "A" /\ parts[R(1)].owner = "B"
    /\ freedBy[1] = [thread |-> "B", h |-> L(1)]
    /\ freedBy[2] = [thread |-> "B", h |-> R(2)]
    /\ \A t \in Threads : pc[t] = Idle

====
